---- MODULE Spec2Model ----
(***************************************************************************)
(* Model of VideoTrimmer: the timecode parsers, the frame cache of         *)
(* VideoProcessor.get_frame_at_time and the per-segment trim / concatenate *)
(* pipeline of VideoProcessor.process_segments.                            *)
(*                                                                         *)
(* Times are integers in milliseconds.  A timecode string is a sequence of *)
(* one-character strings.  A call result is a record [ok |-> TRUE, ...] or *)
(* [ok |-> FALSE, exc |-> <exception type>, ...].                          *)
(***************************************************************************)
EXTENDS Integers, Sequences, FiniteSets, TLC

(***************************************************************************)
(* Bounds of the model.                                                    *)
(***************************************************************************)
MaxSegs == 2          \* longest segment list handed to process_segments
MaxFrame == 31        \* largest frame index of the previewed video
MaxFiles == 6         \* number of video files the user opens
MaxPresets == 6       \* longest list of fade presets
MaxWidgets == 2       \* most segments in the trim panel

(***************************************************************************)
(* Strings.                                                                *)
(***************************************************************************)
DigitChars == <<"0", "1", "2", "3", "4", "5", "6", "7", "8", "9">>

IsDigit(c) == \E k \in 1..10 : DigitChars[k] = c

DigitVal(c) == (CHOOSE k \in 1..10 : DigitChars[k] = c) - 1

AllDigits(s) == \A k \in 1..Len(s) : IsDigit(s[k])

Count(s, c) == Cardinality({k \in 1..Len(s) : s[k] = c})

Pow10(n) == IF n = 0 THEN 1 ELSE IF n = 1 THEN 10 ELSE IF n = 2 THEN 100 ELSE 1000

RECURSIVE DigitsVal(_)
DigitsVal(s) ==
    IF Len(s) = 0 THEN 0
    ELSE 10 * DigitsVal(SubSeq(s, 1, Len(s) - 1)) + DigitVal(s[Len(s)])

\* str.split(sep): the pieces between the occurrences of sep
RECURSIVE Split(_, _)
Split(s, sep) ==
    IF \A k \in 1..Len(s) : s[k] # sep THEN <<s>>
    ELSE LET p == CHOOSE k \in 1..Len(s) :
                      s[k] = sep /\ \A j \in 1..(k - 1) : s[j] # sep
         IN  <<SubSeq(s, 1, p - 1)>> \o Split(SubSeq(s, p + 1, Len(s)), sep)

Ok(v) == [ok |-> TRUE, ms |-> v]

\* a function that returned the string t
OkText(t) == [ok |-> TRUE, text |-> t]

\* str(n) of a natural number
RECURSIVE Decimal(_)
Decimal(n) ==
    IF n < 10 THEN <<DigitChars[n + 1]>>
    ELSE Decimal(n \div 10) \o <<DigitChars[(n % 10) + 1]>>

\* f"{n:02d}": at least two digits
Format02d(n) == IF n < 10 THEN <<"0">> \o Decimal(n) ELSE Decimal(n)

\* f"{n:03d}" for n < 1000
Format03d(n) ==
    <<DigitChars[(n \div 100) + 1], DigitChars[((n \div 10) % 10) + 1], DigitChars[(n % 10) + 1]>>

Whitespace == {" ", "\n"}

\* str.strip(): int() and float() skip the white space around the number
RECURSIVE Strip(_)
Strip(s) ==
    IF Len(s) > 0 /\ s[1] \in Whitespace THEN Strip(Tail(s))
    ELSE IF Len(s) > 0 /\ s[Len(s)] \in Whitespace THEN Strip(SubSeq(s, 1, Len(s) - 1))
    ELSE s

Raise(e) == [ok |-> FALSE, exc |-> e]

\* int(text) for a text of this alphabet, scaled to milliseconds
PyInt(s) ==
    LET t == Strip(s)
    IN  IF Len(t) > 0 /\ AllDigits(t) THEN Ok(1000 * DigitsVal(t)) ELSE Raise("ValueError")

\* float(text) for a text of this alphabet, scaled to milliseconds
\* (exact for at most three fractional digits)
PyFloat(s) ==
    IF Count(s, ".") = 0 THEN PyInt(s)
    ELSE IF Count(s, ".") > 1 THEN Raise("ValueError")
    ELSE LET parts == Split(Strip(s), ".")
             whole == parts[1]
             frac  == parts[2]
         IN  IF ~(AllDigits(whole) /\ AllDigits(frac)) \/ Len(whole) + Len(frac) = 0
               THEN Raise("ValueError")
             ELSE IF Len(frac) > 3 THEN Raise("Unmodelled")
             ELSE Ok(1000 * DigitsVal(whole) + DigitsVal(frac) * Pow10(3 - Len(frac)))

(***************************************************************************)
(* services/timecode_utils.py                                              *)
(***************************************************************************)
\* the pattern \d{2}:\d{2}:\d{2}(?:[:.]\d{1,3})? on the whole of tc
FullMatch(tc) ==
    /\ Len(tc) \in {8} \cup (10..12)
    /\ IsDigit(tc[1]) /\ IsDigit(tc[2]) /\ tc[3] = ":"
    /\ IsDigit(tc[4]) /\ IsDigit(tc[5]) /\ tc[6] = ":"
    /\ IsDigit(tc[7]) /\ IsDigit(tc[8])
    /\ Len(tc) > 8 => /\ tc[9] \in {":", "."}
                      /\ \A k \in 10..Len(tc) : IsDigit(tc[k])

\* re.match of ^...$ (lines 19-20): $ matches at the end of the string and
\* also just before a newline that ends the string
validate_timecode(tc) ==
    \/ FullMatch(tc)
    \/ Len(tc) > 0 /\ tc[Len(tc)] = "\n" /\ FullMatch(SubSeq(tc, 1, Len(tc) - 1))

timecode_to_seconds(tc) ==
    IF ~validate_timecode(tc) THEN Raise("ValueError")
    ELSE LET parts == Split(tc, ":")
             hours == PyInt(parts[1]).ms
             minutes == PyInt(parts[2]).ms
         IN  IF Count(tc, ":") = 3
               THEN Ok(hours * 3600 + minutes * 60 + PyInt(parts[3]).ms
                       + PyInt(parts[4]).ms \div 1000)
               ELSE Ok(hours * 3600 + minutes * 60
                       + (IF Count(parts[3], ".") > 0 THEN PyFloat(parts[3]).ms
                                                      ELSE PyInt(parts[3]).ms))

\* what a float holds below its last whole millisecond: nothing, or a rest
\* that {:06.3f} rounds down or up
Rests == {"none", "down", "up"}

\* f"{secs:06.3f}" of secs milliseconds and a rest
Format06_3f(secs, rest) ==
    LET rounded == IF rest = "up" THEN secs + 1 ELSE secs
    IN  Format02d(rounded \div 1000) \o <<".">> \o Format03d(rounded % 1000)

\* the fraction put after a colon
seconds_to_timecode_colon(seconds, rest) ==
    IF seconds < 0 THEN Raise("ValueError")
    ELSE LET hours == seconds \div 3600000
             minutes == (seconds % 3600000) \div 60000
             secs == seconds % 60000
         IN  IF secs % 1000 = 0 /\ rest = "none"
               THEN OkText(Format02d(hours) \o <<":">> \o Format02d(minutes) \o <<":">>
                           \o Format02d(secs \div 1000))
               ELSE OkText(Format02d(hours) \o <<":">> \o Format02d(minutes) \o <<":">>
                           \o Format02d(secs \div 1000) \o <<":">> \o Format03d(secs % 1000))

\* seconds_to_timecode (lines 58-80) of a time of seconds whole milliseconds
\* and a rest below them; a time that timecode_to_seconds returned has no rest
seconds_to_timecode(seconds, rest) ==
    IF seconds < 0 THEN Raise("ValueError")
    ELSE LET hours == seconds \div 3600000
             minutes == (seconds % 3600000) \div 60000
             secs == seconds % 60000
         IN  IF secs % 1000 = 0 /\ rest = "none"
               THEN OkText(Format02d(hours) \o <<":">> \o Format02d(minutes) \o <<":">>
                           \o Format02d(secs \div 1000))
               ELSE OkText(Format02d(hours) \o <<":">> \o Format02d(minutes) \o <<":">>
                           \o Format06_3f(secs, rest))

\* a pair returned
OkRange(start_seconds, end_seconds) ==
    [ok |-> TRUE, start |-> start_seconds, end |-> end_seconds]

\* an end equal to the start let through
parse_timecode_range_equal(range_str) ==
    LET parts == Split(range_str, "-")
        start_seconds == timecode_to_seconds(Strip(parts[1]))
        end_seconds == timecode_to_seconds(Strip(parts[2]))
    IN  IF Len(parts) # 2 THEN Raise("ValueError")
        ELSE IF ~start_seconds.ok THEN start_seconds
        ELSE IF ~end_seconds.ok THEN end_seconds
        ELSE IF end_seconds.ms < start_seconds.ms THEN Raise("ValueError")
        ELSE OkRange(start_seconds.ms, end_seconds.ms)

\* parse_timecode_range (lines 83-106)
parse_timecode_range(range_str) ==
    LET parts == Split(range_str, "-")
        start_seconds == timecode_to_seconds(Strip(parts[1]))
        end_seconds == timecode_to_seconds(Strip(parts[2]))
    IN  IF Len(parts) # 2 THEN Raise("ValueError")
        ELSE IF ~start_seconds.ok THEN start_seconds
        ELSE IF ~end_seconds.ok THEN end_seconds
        ELSE IF end_seconds.ms <= start_seconds.ms THEN Raise("ValueError")
        ELSE OkRange(start_seconds.ms, end_seconds.ms)

(***************************************************************************)
(* models/video_segment.py                                                 *)
(***************************************************************************)
\* a parser that leaves out the milliseconds after the third colon
time_to_seconds_whole(time_str) ==
    LET parts == Split(time_str, ":")
        F(k) == PyFloat(parts[k])
    IN  IF Len(parts) >= 3 /\ F(1).ok /\ F(2).ok /\ F(3).ok
          THEN Ok(F(1).ms * 3600 + F(2).ms * 60 + F(3).ms)
          ELSE Ok(0)

\* VideoSegment.time_to_seconds: ValueError is swallowed and gives 0.0
time_to_seconds(time_str) ==
    LET parts == Split(time_str, ":")
        F(k) == PyFloat(parts[k])
    IN  IF Count(time_str, ":") = 3
          THEN IF F(1).ok /\ F(2).ok /\ F(3).ok /\ F(4).ok
                 THEN Ok(F(1).ms * 3600 + F(2).ms * 60 + F(3).ms + F(4).ms \div 1000)
                 ELSE Ok(0)
        ELSE IF Count(time_str, ".") > 0
          THEN IF ~F(1).ok THEN Ok(0)
               ELSE IF Len(parts) < 2 THEN Raise("IndexError")
               ELSE IF ~F(2).ok THEN Ok(0)
               ELSE IF Len(parts) < 3 THEN Raise("IndexError")
               ELSE IF ~F(3).ok THEN Ok(0)
               ELSE Ok(F(1).ms * 3600 + F(2).ms * 60 + F(3).ms)
        ELSE IF Len(parts) = 3 /\ F(1).ok /\ F(2).ok /\ F(3).ok
               THEN Ok(F(1).ms * 3600 + F(2).ms * 60 + F(3).ms)
               ELSE Ok(0)

(***************************************************************************)
(* State.                                                                  *)
(***************************************************************************)
VARIABLES
    video,          \* VideoProcessor.fps, total_frames, width, height, duration (ms)
    video_capture,  \* VideoProcessor._video_capture: is_open, pos (CAP_PROP_POS_MSEC)
    frame_cache,    \* VideoProcessor._frame_cache: frame index -> (width, height, bytes)
    frame_request,  \* the timecode the last get_frame_at_time call was given
    frame_result,   \* what the last get_frame_at_time call returned, and for which frame
    capture_ops,    \* the capture operations the last get_frame_at_time call performed
    tool,           \* the external transcoder on this host: "ok" or "missing"
    fs,             \* the files of the output directory: path -> content
    segments,       \* process_segments: the segments argument
    pc,             \* process_segments: where the call is
    seg_index,      \* process_segments: i of the loop over the segments
    segment_files,  \* process_segments: segment_files
    simple_from,    \* the call site of _trim_segment_with_ffmpeg_simple: "try" (line 307) or "except" (line 314)
    cv_from,        \* the call site of trim_segment: "try" (line 388) or "except" (line 395)
    log,            \* the tier attempts, external invocations and file operations of the call, in order
    outcome,        \* what process_segments returned or raised
    config,         \* ConfigManager.config: the configuration in memory
    config_file,    \* the content of the configuration file
    disk,           \* whether the configuration file can be written: "ok" or "readonly"
    config_op,      \* the last operation on the configuration and its argument
    segment_widgets,\* TrimPanel.segment_widgets: the text of the two time fields and the segment of each
    conv_step,      \* the conversions applied to conv_input so far
    conv_input,     \* a string given to timecode_to_seconds
    conv_seconds,   \* timecode_to_seconds(conv_input)
    conv_text,      \* seconds_to_timecode of that
    conv_back,      \* timecode_to_seconds of that
    window_segments,\* MainWindow.segments: the segment objects, by the number of each
    open_handles,   \* the number of VideoProcessor objects whose capture is open
    window_op,      \* the last operation of the main window on the video
    default_modified, \* the keys whose list in DEFAULT_CONFIG, no longer the list of config, was left changed
    aliased         \* the keys whose list in config is the list object of DEFAULT_CONFIG

cacheVars == <<video, video_capture, frame_cache, frame_request, frame_result, capture_ops>>

pipeVars == <<tool, fs, segments, pc, seg_index, segment_files, simple_from, cv_from,
              log, outcome>>

configVars == <<config, config_file, disk, config_op>>

convVars == <<conv_step, conv_input, conv_seconds, conv_text, conv_back>>

windowVars == <<window_segments, open_handles, window_op>>

defaultVars == <<default_modified, aliased>>

appVars == <<config, config_file, disk, config_op, segment_widgets,
             conv_step, conv_input, conv_seconds, conv_text, conv_back,
             window_segments, open_handles, window_op, default_modified, aliased>>

vars == <<video, video_capture, frame_cache, frame_request, frame_result, capture_ops,
          tool, fs, segments, pc, seg_index, segment_files, simple_from, cv_from,
          log, outcome, config, config_file, disk, config_op, segment_widgets,
          conv_step, conv_input, conv_seconds, conv_text, conv_back,
          window_segments, open_handles, window_op, default_modified, aliased>>

(***************************************************************************)
(* services/video_processor.py: construction and frame preview             *)
(***************************************************************************)
_cache_size_limit == 30

NoFrame == [frame |-> -1, value |-> <<>>]

\* VideoProcessor.__init__ and _load_video for a file of n frames at f frames per second
LoadedVideo(f, n) ==
    [fps |-> f, total_frames |-> n, width |-> 4, height |-> 2,
     duration |-> IF f > 0 THEN (n * 1000) \div f ELSE 0]

_get_frame_number(time_ms) == (time_ms * video.fps) \div 1000

\* the frame the decoder delivers after a seek to a millisecond position
FrameAtMs(pos_ms) == (pos_ms * video.fps) \div 1000

\* the millisecond position of the capture after it has read frame f
PosAfter(f) == ((f + 1) * 1000) \div video.fps

\* cv2.cvtColor(frame, COLOR_BGR2RGB).tobytes() of source frame f
RgbBytes(f) == <<"rgb", f>>

Abs(x) == IF x < 0 THEN -x ELSE x

\* the largest key instead of the smallest
MinKey_largest(cache) == CHOOSE k \in DOMAIN cache : \A j \in DOMAIN cache : k >= j

\* min(self._frame_cache.keys()) (line 574)
MinKey(cache) == CHOOSE k \in DOMAIN cache : \A j \in DOMAIN cache : k <= j

Without(cache, key) == [k \in (DOMAIN cache) \ {key} |-> cache[k]]

With(cache, key, value) ==
    [k \in (DOMAIN cache) \cup {key} |-> IF k = key THEN value ELSE cache[k]]

\* the eviction test off by one: a full cache is not yet "full"
_add_to_cache_late(cache, frame_number, frame_data) ==
    LET kept == IF Cardinality(DOMAIN cache) > _cache_size_limit
                  THEN Without(cache, MinKey(cache))
                  ELSE cache
    IN  With(kept, frame_number, frame_data)

_add_to_cache(cache, frame_number, frame_data) ==
    LET kept == IF Cardinality(DOMAIN cache) >= _cache_size_limit
                  THEN Without(cache, MinKey(cache))
                  ELSE cache
    IN  With(kept, frame_number, frame_data)

\* the cache lookup that never finds the frame
NotInCache(cache, frame_number) == FALSE

\* the cache lookup of get_frame_at_time (line 522)
InCache(cache, frame_number) == frame_number \in DOMAIN cache

\* the exception handed on to the caller
Reraise(exc) == [frame |-> -1, value |-> <<"raised", exc>>]

\* the handler of get_frame_at_time (lines 566-568): prints and returns None
ReturnNone(exc) == NoFrame

\* get_frame_at_time(timecode); ret1 and ret2 are what the two read() calls
\* deliver.  capture_ops lists what the call did to the capture, a read that
\* delivered no frame as "read_failed".
get_frame_at_time(timecode, ret1, ret2) ==
    LET parsed == timecode_to_seconds(timecode)
        seconds == parsed.ms
        frame_number == _get_frame_number(seconds)
        reopen == Abs(seconds - video_capture.pos) > 1000
        ops0 == (IF reopen THEN <<"reopen">> ELSE <<>>) \o <<"seek_msec">>
        ops1 == ops0 \o <<"read">>
        ops2 == ops0 \o <<"read_failed", "seek_frames", IF ret2 THEN "read" ELSE "read_failed">>
        decoded == IF ret1 THEN FrameAtMs(seconds) ELSE frame_number
        result == <<video.width, video.height, RgbBytes(decoded)>>
    IN  /\ frame_request' = timecode
        /\ IF ~video_capture.is_open THEN
                /\ frame_result' = NoFrame
                /\ capture_ops' = <<>>
                /\ UNCHANGED <<video_capture, frame_cache>>
            ELSE IF ~parsed.ok THEN
                /\ frame_result' = ReturnNone(parsed.exc)
                /\ capture_ops' = <<>>
                /\ UNCHANGED <<video_capture, frame_cache>>
            ELSE IF seconds < 0 \/ seconds > video.duration THEN
                /\ frame_result' = NoFrame
                /\ capture_ops' = <<>>
                /\ UNCHANGED <<video_capture, frame_cache>>
            ELSE IF InCache(frame_cache, frame_number) THEN
                /\ frame_result' = [frame |-> frame_number, value |-> frame_cache[frame_number]]
                /\ capture_ops' = <<>>
                /\ UNCHANGED <<video_capture, frame_cache>>
            ELSE IF ~ret1 /\ ~ret2 THEN
                /\ frame_result' = NoFrame
                /\ capture_ops' = ops2
                /\ video_capture' = [video_capture EXCEPT !.pos = PosAfter(frame_number) - 1000 \div video.fps]
                /\ UNCHANGED frame_cache
            ELSE
                /\ frame_result' = [frame |-> frame_number, value |-> result]
                /\ capture_ops' = IF ret1 THEN ops1 ELSE ops2
                /\ video_capture' = [video_capture EXCEPT !.pos = PosAfter(decoded)]
                /\ frame_cache' = _add_to_cache(frame_cache, frame_number, result)

(***************************************************************************)
(* Timecodes of the preview session.                                       *)
(***************************************************************************)
Fmt2(n) == <<DigitChars[(n \div 10) + 1], DigitChars[(n % 10) + 1]>>

Timecode(h, m, s) == Fmt2(h) \o <<":">> \o Fmt2(m) \o <<":">> \o Fmt2(s)

FrameTimecode(f) == Timecode(0, f \div 60, f % 60)

\* the frames the user seeks to: the first ones and the last ones of the video
SeekFrames == (0..1) \cup ((MaxFrame - 2)..MaxFrame)

PreviewTimecodes ==
    {FrameTimecode(f) : f \in SeekFrames}
        \cup {FrameTimecode(MaxFrame - 1) \o <<".", "5">>,   \* inside a frame
              FrameTimecode(MaxFrame - 2) \o <<":", "2", "5", "0">>,
              FrameTimecode(MaxFrame + 1),                   \* exactly the duration
              FrameTimecode(MaxFrame + 1) \o <<".", "5">>,   \* just beyond the duration
              Timecode(1, 0, 0),                             \* beyond the duration
              <<"0", ":", "0", "0", ":", "0", "1">>}        \* malformed

(***************************************************************************)
(* services/video_processor.py: the files of the output directory          *)
(***************************************************************************)
OutputPath == <<"output", 0>>

TempDir == <<"temp_segments", 0>>

ListFile == <<"filelist.txt", 0>>

\* os.path.join(temp_dir, f"segment_{i}.mp4")
SegmentPath(i) == <<"segment", i>>

InTempDir(path) == path[1] = "segment"

Exists(files, path) == path \in DOMAIN files

Write(files, path, content) ==
    [q \in (DOMAIN files) \cup {path} |-> IF q = path THEN content ELSE files[q]]

Remove(files, path) == [q \in (DOMAIN files) \ {path} |-> files[q]]

Directory == [kind |-> "dir", seg |-> -1, tier |-> 0, data |-> <<>>]

\* a file that exists with zero bytes
ZeroBytes(i, t) == [kind |-> "empty", seg |-> i, tier |-> t, data |-> <<>>]

\* a non-empty video file written by tier t for segment i; data is what it holds
VideoFile(i, t, d) == [kind |-> "video", seg |-> i, tier |-> t, data |-> d]

NoCmd == [ss |-> 0, t |-> 0, vf |-> <<>>, af |-> <<>>]

LogEntry(o, i, r, c) == [op |-> o, seg |-> i, result |-> r, cmd |-> c]

Error(e, txt, a) == [ok |-> FALSE, exc |-> e, text |-> txt, about |-> a]

Returned == [ok |-> TRUE, exc |-> "", text |-> "", about |-> <<"output_path">>]

NoOutcome == [ok |-> FALSE, exc |-> "", text |-> "", about |-> <<>>]

\* the finally block of process_segments
Cleanup(files, seg_files) ==
    LET removed == [q \in {r \in DOMAIN files : \A k \in 1..Len(seg_files) : seg_files[k] # r}
                      |-> files[q]]
    IN  IF Exists(removed, TempDir) /\ \A q \in DOMAIN removed : ~InTempDir(q)
          THEN Remove(removed, TempDir)
          ELSE removed

(***************************************************************************)
(* services/video_processor.py: the commands of the two external tiers     *)
(***************************************************************************)
Filter(n, ty, d, st) == [name |-> n, type |-> ty, duration |-> d, start_time |-> st]

Max(a, b) == IF a >= b THEN a ELSE b

\* the fades dropped when together they are longer than 90% of the segment
ComplexFadesCapped(n, fade_in_sec, fade_out_sec, duration) ==
    IF (fade_in_sec + fade_out_sec) * 10 > duration * 9 THEN <<>>
    ELSE (IF fade_in_sec > 0 THEN <<Filter(n, "in", fade_in_sec, 0)>> ELSE <<>>)
            \o (IF fade_out_sec > 0
                  THEN <<Filter(n, "out", fade_out_sec, Max(0, duration - fade_out_sec))>>
                  ELSE <<>>)

\* the fade filters of one track of _trim_segment_with_ffmpeg (lines 238-275)
ComplexFades(n, fade_in_sec, fade_out_sec, duration) ==
    (IF fade_in_sec > 0 THEN <<Filter(n, "in", fade_in_sec, 0)>> ELSE <<>>)
        \o (IF fade_out_sec > 0
              THEN <<Filter(n, "out", fade_out_sec, Max(0, duration - fade_out_sec))>>
              ELSE <<>>)

\* the command of _trim_segment_with_ffmpeg (lines 213-294)
ComplexCmd(segment) ==
    LET start_seconds == time_to_seconds(segment.start_time).ms
        duration == time_to_seconds(segment.end_time).ms - start_seconds
        has_fades == segment.fade_in_duration > 0 \/ segment.fade_out_duration > 0
    IN  [ss |-> start_seconds, t |-> duration,
         vf |-> IF has_fades
                  THEN ComplexFades("fade", segment.fade_in_duration,
                                    segment.fade_out_duration, duration)
                  ELSE <<>>,
         af |-> IF has_fades
                  THEN ComplexFades("afade", segment.fade_in_duration,
                                    segment.fade_out_duration, duration)
                  ELSE <<>>]

\* the fade filters of one track of _trim_segment_with_ffmpeg_simple (lines 346-358)
SimpleFades(n, segment, duration) ==
    (IF segment.fade_in_duration > 0
       THEN <<Filter(n, "in", segment.fade_in_duration, 0)>> ELSE <<>>)
        \o (IF segment.fade_out_duration > 0
              THEN <<Filter(n, "out", segment.fade_out_duration,
                            IF duration - segment.fade_out_duration < 0
                              THEN 0 ELSE duration - segment.fade_out_duration)>>
              ELSE <<>>)

\* the command of _trim_segment_with_ffmpeg_simple (lines 329-376)
SimpleCmd(segment) ==
    LET start_seconds == time_to_seconds(segment.start_time).ms
        duration == time_to_seconds(segment.end_time).ms - start_seconds
    IN  [ss |-> start_seconds, t |-> duration,
         vf |-> SimpleFades("fade", segment, duration),
         af |-> SimpleFades("afade", segment, duration)]

\* what one run of the external transcoder can do: its exit code and what it
\* leaves at its output path ("data": a non-empty file, "empty": a file of
\* zero bytes, "none": the path is left as it was)
ToolRuns ==
    {[rc |-> 0, leaves |-> "data"], [rc |-> 0, leaves |-> "empty"],
     [rc |-> 0, leaves |-> "none"],
     [rc |-> 1, leaves |-> "empty"], [rc |-> 1, leaves |-> "none"]}

AfterRun(files, path, run, i, t, d) ==
    IF run.leaves = "data" THEN Write(files, path, VideoFile(i, t, d))
    ELSE IF run.leaves = "empty" THEN Write(files, path, ZeroBytes(i, t))
    ELSE files

(***************************************************************************)
(* services/video_processor.py: trim_segment, the frame-by-frame tier      *)
(***************************************************************************)
\* the frame copied without any fade
UnfadedFrame(i, start_frame, total_segment_frames, fade_in_frames, fade_out_frames) ==
    [src |-> start_frame + i, num |-> 1, den |-> 1]

\* the frame written for loop index i (lines 129-140): the source frame and
\* the alpha it is scaled by, as a fraction; alpha 1/1 is the frame as read
FadedFrame(i, start_frame, total_segment_frames, fade_in_frames, fade_out_frames) ==
    IF i < fade_in_frames /\ fade_in_frames > 0
      THEN [src |-> start_frame + i, num |-> i, den |-> fade_in_frames]
    ELSE IF i >= total_segment_frames - fade_out_frames /\ fade_out_frames > 0
      THEN [src |-> start_frame + i, num |-> total_segment_frames - i, den |-> fade_out_frames]
    ELSE [src |-> start_frame + i, num |-> 1, den |-> 1]

\* the checks of trim_segment before it writes (lines 91-99)
TrimSegmentError(segment) ==
    LET start_time == timecode_to_seconds(segment.start_time)
        end_time == timecode_to_seconds(segment.end_time)
    IN  IF ~video_capture.is_open
          THEN Error("RuntimeError", "No video loaded", <<"none">>)
        ELSE IF ~start_time.ok
          THEN Error("ValueError", "Invalid timecode format", <<"timecode", segment.start_time>>)
        ELSE IF ~end_time.ok
          THEN Error("ValueError", "Invalid timecode format", <<"timecode", segment.end_time>>)
        ELSE IF start_time.ms < 0 \/ end_time.ms > video.duration
          THEN Error("ValueError", "Trim times out of range", <<"duration", video.duration>>)
        ELSE Returned

\* the frames trim_segment writes when the capture delivers nread frames
\* (lines 101-140); a video that is intact delivers every frame of the segment,
\* and the writer is taken to open its file
TrimmedFrames(segment, nread) ==
    LET start_frame == _get_frame_number(timecode_to_seconds(segment.start_time).ms)
        end_frame == _get_frame_number(timecode_to_seconds(segment.end_time).ms)
        total_segment_frames == end_frame - start_frame
        fade_in_frames == (segment.fade_in_duration * video.fps) \div 1000
        fade_out_frames == (segment.fade_out_duration * video.fps) \div 1000
    IN  [k \in 1..nread |->
            FadedFrame(k - 1, start_frame, total_segment_frames, fade_in_frames, fade_out_frames)]

TotalSegmentFrames(segment) ==
    _get_frame_number(timecode_to_seconds(segment.end_time).ms)
        - _get_frame_number(timecode_to_seconds(segment.start_time).ms)

(***************************************************************************)
(* services/video_processor.py: process_segments, one action per external  *)
(* invocation or tier, each with the code that follows it up to the next   *)
(* one.                                                                    *)
(***************************************************************************)
\* segment_files.append(temp_output) put at the wrong end
PrependFile(seg_files, path) == <<path>> \o seg_files

\* segment_files.append(temp_output) (line 174)
AppendFile(seg_files, path) == Append(seg_files, path)

\* the single-file test taken for "there is a file"
AtLeastOneSegment(seg_files) == Len(seg_files) >= 1

\* the test of line 177
OnlyOneSegment(seg_files) == Len(seg_files) = 1

\* a tier returned output_path to the loop of process_segments (lines 173-174):
\* the loop goes on to the next segment or ends
TrimReturns(files) ==
    /\ fs' = files
    /\ segment_files' = AppendFile(segment_files, SegmentPath(seg_index))
    /\ IF seg_index + 1 < Len(segments)
         THEN pc' = "tier1" /\ seg_index' = seg_index + 1
         ELSE pc' = "after_loop" /\ seg_index' = seg_index
    /\ simple_from' = "none"
    /\ cv_from' = "none"
    /\ UNCHANGED outcome

\* an exception leaves the try block of process_segments through its finally
\* block (lines 185-198)
ProcessFails(files, err) ==
    /\ fs' = Cleanup(files, segment_files)
    /\ outcome' = err
    /\ pc' = "raised"
    /\ UNCHANGED <<seg_index, segment_files, simple_from, cv_from>>

\* trim_segment raised: the nested handlers of lines 392-395 and 311-314
TrimRaises(err) ==
    IF cv_from = "try" THEN
        /\ pc' = "tier3"
        /\ cv_from' = "except"
        /\ UNCHANGED <<fs, outcome, seg_index, segment_files, simple_from>>
    ELSE IF simple_from = "try" THEN
        /\ pc' = "tier2"
        /\ simple_from' = "except"
        /\ cv_from' = "none"
        /\ UNCHANGED <<fs, outcome, seg_index, segment_files>>
    ELSE ProcessFails(fs, err)

GoTier2(files, from) ==
    /\ fs' = files
    /\ pc' = "tier2"
    /\ simple_from' = from
    /\ UNCHANGED <<outcome, seg_index, segment_files, cv_from>>

GoTier3(files, from) ==
    /\ fs' = files
    /\ pc' = "tier3"
    /\ cv_from' = from
    /\ UNCHANGED <<outcome, seg_index, segment_files, simple_from>>

TimesParse(segment) ==
    time_to_seconds(segment.start_time).ok /\ time_to_seconds(segment.end_time).ok

\* the exit code test inverted
TierSucceededInverted(run) == run.rc # 0

\* what a tier does with the result of its invocation (lines 304-309, 385-390)
TierSucceeded(run) == run.rc = 0

\* the test for an empty list left out
NoSegmentsUnchecked(segs) == FALSE

\* "not segments" (line 158)
NoSegments(segs) == Len(segs) = 0

\* process_segments up to the first invocation (lines 158-170)
ProcessSegments(segs) ==
    /\ pc = "idle"
    /\ segments' = segs
    /\ log' = <<>>
    /\ IF NoSegments(segs) THEN
           /\ outcome' = Error("ValueError", "No segments provided", <<"none">>)
           /\ pc' = "raised"
           /\ UNCHANGED <<fs, seg_index, segment_files, simple_from, cv_from>>
       ELSE
           /\ fs' = IF Exists(fs, TempDir) THEN fs ELSE Write(fs, TempDir, Directory)
           /\ segment_files' = <<>>
           /\ seg_index' = 0
           /\ pc' = IF Len(segs) > 0 THEN "tier1" ELSE "after_loop"
           /\ UNCHANGED <<outcome, simple_from, cv_from>>
    /\ UNCHANGED <<tool, cacheVars>>

\* _trim_segment_with_ffmpeg: the filter-graph tier (lines 211-314)
FilterGraphTier ==
    /\ pc = "tier1"
    /\ LET segment == segments[seg_index + 1]
           cmd == ComplexCmd(segment)
           path == SegmentPath(seg_index)
       IN  IF ~TimesParse(segment) THEN
               /\ log' = Append(log, LogEntry("tier1", seg_index, "raised", NoCmd))
               /\ GoTier2(fs, "except")
           ELSE IF tool = "missing" THEN
               /\ log' = Append(log, LogEntry("tier1", seg_index, "oserror", cmd))
               /\ GoTier2(fs, "except")
           ELSE \E run \in ToolRuns :
               /\ log' = Append(log, LogEntry("tier1", seg_index,
                                              IF run.rc = 0 THEN "rc0" ELSE "rc1", cmd))
               /\ IF TierSucceeded(run)
                    THEN TrimReturns(AfterRun(fs, path, run, seg_index, 1, <<cmd>>))
                    ELSE GoTier2(AfterRun(fs, path, run, seg_index, 1, <<cmd>>), "try")
    /\ UNCHANGED <<tool, segments, cacheVars, appVars>>

\* _trim_segment_with_ffmpeg_simple: the simple-filter tier (lines 327-395)
SimpleFilterTier ==
    /\ pc = "tier2"
    /\ LET segment == segments[seg_index + 1]
           cmd == SimpleCmd(segment)
           path == SegmentPath(seg_index)
       IN  IF ~TimesParse(segment) THEN
               /\ log' = Append(log, LogEntry("tier2", seg_index, "raised", NoCmd))
               /\ GoTier3(fs, "except")
           ELSE IF tool = "missing" THEN
               /\ log' = Append(log, LogEntry("tier2", seg_index, "oserror", cmd))
               /\ GoTier3(fs, "except")
           ELSE \E run \in ToolRuns :
               /\ log' = Append(log, LogEntry("tier2", seg_index,
                                              IF run.rc = 0 THEN "rc0" ELSE "rc1", cmd))
               /\ IF TierSucceeded(run)
                    THEN TrimReturns(AfterRun(fs, path, run, seg_index, 2, <<cmd>>))
                    ELSE GoTier3(AfterRun(fs, path, run, seg_index, 2, <<cmd>>), "try")
    /\ UNCHANGED <<tool, segments, cacheVars, appVars>>

\* trim_segment: the last-resort tier (lines 91-145)
LastResortTier ==
    /\ pc = "tier3"
    /\ LET segment == segments[seg_index + 1]
           err == TrimSegmentError(segment)
           path == SegmentPath(seg_index)
       IN  IF ~err.ok THEN
               /\ log' = Append(log, LogEntry("tier3", seg_index, "raised", NoCmd))
               /\ TrimRaises(err)
               /\ UNCHANGED video_capture
           ELSE
               LET start_frame ==
                       _get_frame_number(timecode_to_seconds(segment.start_time).ms)
                   nread == Max(0, TotalSegmentFrames(segment))
               IN  /\ log' = Append(log, LogEntry("tier3", seg_index, "returned", NoCmd))
                   /\ video_capture' =
                          [video_capture EXCEPT !.pos = PosAfter(start_frame + nread - 1)]
                   \* a writer that could not be opened drops every frame
                   /\ \E writer_ok \in BOOLEAN :
                          TrimReturns(IF writer_ok
                                        THEN Write(fs, path, VideoFile(seg_index, 3,
                                                   TrimmedFrames(segment, nread)))
                                        ELSE fs)
    /\ UNCHANGED <<tool, segments, video, frame_cache, frame_request, frame_result,
                   capture_ops, appVars>>

\* process_segments with one segment file (lines 177-178, 183-198)
MoveSingle ==
    /\ pc = "after_loop"
    /\ OnlyOneSegment(segment_files)
    /\ IF Exists(fs, segment_files[1]) THEN
           /\ log' = Append(log, LogEntry("replace", 0, "done", NoCmd))
           /\ fs' = Cleanup(Write(Remove(fs, segment_files[1]), OutputPath,
                                  fs[segment_files[1]]), segment_files)
           /\ outcome' = Returned
           /\ pc' = "done"
           /\ UNCHANGED <<seg_index, segment_files, simple_from, cv_from>>
       ELSE
           /\ log' = Append(log, LogEntry("replace", 0, "raised", NoCmd))
           /\ ProcessFails(fs, Error("FileNotFoundError", "os.replace",
                                     <<"path", segment_files[1]>>))
    /\ UNCHANGED <<tool, segments, cacheVars, appVars>>

\* the manifest _concatenate_videos writes (lines 406-410)
Manifest(input_files) == [kind |-> "manifest", seg |-> -1, tier |-> 0, data |-> input_files]

\* the version check taken to succeed whatever it returned
ffmpeg_assumed_available(rc) == TRUE

\* ffmpeg_available of _concatenate_videos (lines 415-422): rc is the exit
\* code of the version check, or "oserror" when the tool could not be started
ffmpeg_available(rc) == rc = "rc0"

\* _concatenate_videos up to the end of the version check (lines 405-424)
ConcatVersionCheck ==
    /\ pc = "after_loop"
    /\ ~OnlyOneSegment(segment_files)
    /\ fs' = Write(fs, ListFile, Manifest(segment_files))
    /\ \E rc \in IF tool = "missing" THEN {"oserror"} ELSE {"rc0", "rc1"} :
           /\ log' = log \o <<LogEntry("manifest", -1, "written", NoCmd),
                              LogEntry("version", -1, rc, NoCmd)>>
           /\ pc' = IF ffmpeg_available(rc) THEN "concat" ELSE "manual"
    /\ UNCHANGED <<tool, segments, seg_index, segment_files, simple_from, cv_from,
                   outcome, cacheVars, appVars>>

\* _concatenate_videos: the concat invocation (lines 425-457) and the end of
\* process_segments
ConcatInvocation ==
    /\ pc = "concat"
    /\ \E run \in ToolRuns :
           LET ran == AfterRun(fs, OutputPath, run, -1, 4, fs[ListFile].data)
           IN  /\ log' = Append(log, LogEntry("concat", -1,
                                              IF run.rc = 0 THEN "rc0" ELSE "rc1", NoCmd))
               /\ IF run.rc # 0
                    THEN ProcessFails(Remove(ran, ListFile),
                                      Error("RuntimeError", "FFmpeg failed", <<"stderr">>))
                    ELSE /\ fs' = Cleanup(Remove(ran, ListFile), segment_files)
                         /\ outcome' = Returned
                         /\ pc' = "done"
                         /\ UNCHANGED <<seg_index, segment_files, simple_from, cv_from>>
    /\ UNCHANGED <<tool, segments, cacheVars, appVars>>

\* the input files that deliver frames to _manual_concatenate_videos, in the
\* order they are read (lines 488-495)
RECURSIVE FilesRead(_, _)
FilesRead(files, input_files) ==
    IF Len(input_files) = 0 THEN <<>>
    ELSE (IF Exists(files, input_files[1]) /\ files[input_files[1]].kind = "video"
            THEN <<input_files[1]>> ELSE <<>>)
             \o FilesRead(files, Tail(input_files))

\* _manual_concatenate_videos (lines 459-501), the end of _concatenate_videos
\* and of process_segments
ManualConcatenation ==
    /\ pc = "manual"
    /\ \E writer_ok \in BOOLEAN :
           /\ log' = Append(log, LogEntry("manual", -1,
                                          IF writer_ok THEN "written" ELSE "not written", NoCmd))
           /\ fs' = Cleanup(Remove(IF writer_ok
                                     THEN Write(fs, OutputPath,
                                                VideoFile(-1, 5, FilesRead(fs, segment_files)))
                                     ELSE fs, ListFile), segment_files)
    /\ outcome' = Returned
    /\ pc' = "done"
    /\ UNCHANGED <<tool, segments, seg_index, segment_files, simple_from, cv_from,
                   cacheVars, appVars>>

(***************************************************************************)
(* utils/config_manager.py                                                 *)
(***************************************************************************)
Preset(n, fade_in, fade_out) == [name |-> n, in |-> fade_in, out |-> fade_out]

DEFAULT_CONFIG ==
    [recent_files |-> <<>>,
     max_recent_files |-> 5,
     output_directory |-> "",
     default_fade_in |-> 500,
     default_fade_out |-> 500,
     preset_fades |-> <<Preset("None", 0, 0), Preset("Gentle", 500, 500),
                        Preset("Smooth", 1000, 1000), Preset("Dramatic", 0, 2000),
                        Preset("Intro", 2000, 0)>>]

NoOp == [op |-> "none", arg |-> <<>>]

Op(o, a) == [op |-> o, arg |-> a]

\* the rewrite left out
save_config_skipped(cfg, file) == file

\* save_config (lines 67-79): the file is rewritten with the whole
\* configuration; an IOError is caught and leaves the file as it was
save_config(cfg, file) == IF disk = "ok" THEN <<cfg>> ELSE file

\* ConfigManager.set (lines 94-103)
set(key, value) ==
    /\ config' = [config EXCEPT ![key] = value]
    /\ config_file' = save_config([config EXCEPT ![key] = value], config_file)

\* list.remove(x): without the first occurrence of x
ListRemove(list, x) ==
    LET p == CHOOSE k \in 1..Len(list) : list[k] = x /\ \A j \in 1..(k - 1) : list[j] # x
    IN  SubSeq(list, 1, p - 1) \o SubSeq(list, p + 1, Len(list))

Contains(list, x) == \E k \in 1..Len(list) : list[k] = x

\* the new path put at the end of the list
RecentFilesAppended(recent_files, file_path, max_recent) ==
    LET inserted == (IF Contains(recent_files, file_path)
                       THEN ListRemove(recent_files, file_path)
                       ELSE recent_files) \o <<file_path>>
    IN  IF Len(inserted) > max_recent THEN SubSeq(inserted, 1, max_recent) ELSE inserted

\* the list add_recent_file stores (lines 112-124)
RecentFiles(recent_files, file_path, max_recent) ==
    LET inserted == <<file_path>> \o (IF Contains(recent_files, file_path)
                                        THEN ListRemove(recent_files, file_path)
                                        ELSE recent_files)
    IN  IF Len(inserted) > max_recent THEN SubSeq(inserted, 1, max_recent) ELSE inserted

\* config[key] becomes a list object of its own.  When it was the list of
\* DEFAULT_CONFIG until now (load_config returns DEFAULT_CONFIG.copy(), a
\* copy of the dictionary that shares its lists, lines 62-65), that list
\* stays behind with the content left
Detach(key, left) ==
    IF key \in aliased
      THEN /\ aliased' = aliased \ {key}
           /\ default_modified' = IF left # DEFAULT_CONFIG[key]
                                    THEN default_modified \cup {key}
                                    ELSE default_modified
      ELSE UNCHANGED defaultVars

\* the list after remove and insert(0, file_path), which change it in place
\* (lines 114-119)
Inserted(recent_files, file_path) ==
    <<file_path>> \o (IF Contains(recent_files, file_path)
                        THEN ListRemove(recent_files, file_path)
                        ELSE recent_files)

\* ConfigManager.add_recent_file (lines 105-126): the list is changed in
\* place and stored again, or, when it got too long, a slice of it is stored
add_recent_file(file_path) ==
    /\ set("recent_files", RecentFiles(config.recent_files, file_path, config.max_recent_files))
    /\ IF Len(Inserted(config.recent_files, file_path)) > config.max_recent_files
         THEN Detach("recent_files", Inserted(config.recent_files, file_path))
         ELSE UNCHANGED defaultVars

\* ConfigManager.add_preset_fade (lines 137-163)
add_preset_fade(n, fade_in, fade_out) ==
    LET presets == config.preset_fades
    IN  IF \E k \in 1..Len(presets) : presets[k].name = n
          THEN set("preset_fades",
                   [k \in 1..Len(presets) |->
                       IF presets[k].name = n
                            /\ \A j \in 1..(k - 1) : presets[j].name # n
                         THEN Preset(n, fade_in, fade_out) ELSE presets[k]])
          ELSE set("preset_fades", Append(presets, Preset(n, fade_in, fade_out)))

(***************************************************************************)
(* ui/main_window.py and ui/trim_panel.py: the handlers that change the    *)
(* configuration.  TrimPanel.fade_presets is the list object held by       *)
(* config["preset_fades"], so the two are one list here.                   *)
(***************************************************************************)
FrameRate == 2

FrameCount == 12

\* MainWindow before a video is opened: video_processor is None
NoVideo == [fps |-> 0, total_frames |-> 0, width |-> 0, height |-> 0, duration |-> 0]

\* a capture that was never released keeps its handle
close_skipped(capture) == capture

\* VideoProcessor.close (lines 580-584): the capture is released
close(capture) == [capture EXCEPT !.is_open = FALSE]

\* the number of handles that closing the capture gives back
Released(capture) == IF capture.is_open /\ ~close(capture).is_open THEN 1 ELSE 0

\* MainWindow._load_video (lines 207-238): the processor in use is closed
\* before the new one is constructed; opens tells whether the constructor
\* of the new VideoProcessor succeeds
_load_video(file_path, opens) ==
    IF opens THEN
        /\ video' = LoadedVideo(FrameRate, FrameCount)
        /\ video_capture' = [is_open |-> TRUE, pos |-> 0]
        /\ open_handles' = open_handles - Released(video_capture) + 1
        /\ window_segments' = <<>>
        /\ window_op' = "loaded"
        /\ frame_cache' = <<>>
        /\ frame_request' = <<>>
        /\ frame_result' = NoFrame
        /\ capture_ops' = <<>>
        /\ add_recent_file(file_path)
        /\ config_op' = Op("add", file_path)
        /\ segment_widgets' = <<>>
    ELSE
        /\ video_capture' = close(video_capture)
        /\ open_handles' = open_handles - Released(video_capture)
        /\ window_op' = "load_failed"
        /\ UNCHANGED <<video, frame_cache, frame_request, frame_result, capture_ops,
                       config, config_file, config_op, segment_widgets, window_segments,
                       defaultVars>>

\* MainWindow.closeEvent (lines 347-354)
closeEvent ==
    /\ video_capture' = close(video_capture)
    /\ open_handles' = open_handles - Released(video_capture)
    /\ window_op' = "closed"

\* MainWindow._open_recent_file (lines 246-260) for an entry of the menu
_open_recent_file(file_path, exists, opens) ==
    IF exists THEN _load_video(file_path, opens)
    ELSE /\ IF Contains(config.recent_files, file_path)
              THEN /\ set("recent_files", ListRemove(config.recent_files, file_path))
                   /\ config_op' = Op("remove", file_path)
              ELSE UNCHANGED <<config, config_file, config_op>>
         /\ UNCHANGED <<cacheVars, segment_widgets, windowVars, defaultVars>>

\* MainWindow._clear_recent_files (lines 262-264)
_clear_recent_files ==
    /\ set("recent_files", <<>>)
    /\ Detach("recent_files", config.recent_files)
    /\ config_op' = Op("clear", <<>>)
    /\ UNCHANGED <<cacheVars, segment_widgets, windowVars>>

\* TrimPanel._add_preset (lines 468-523): the dialog was accepted or not,
\* with the name and the fades typed into it
_add_preset(accepted, n, fade_in, fade_out) ==
    /\ IF accepted /\ n # ""
         THEN /\ set("preset_fades", Append(config.preset_fades, Preset(n, fade_in, fade_out)))
              /\ config_op' = Op("_add_preset", <<>>)
         ELSE UNCHANGED <<config, config_file, config_op>>
    /\ UNCHANGED <<cacheVars, segment_widgets, windowVars, defaultVars>>

\* TrimPanel._edit_preset (lines 525-587); selected_index is the current row
_edit_preset(selected_index, accepted, n, fade_in, fade_out) ==
    /\ IF selected_index # -1 /\ selected_index < Len(config.preset_fades)
            /\ accepted /\ n # ""
         THEN /\ set("preset_fades",
                     [config.preset_fades EXCEPT ![selected_index + 1] =
                                                      Preset(n, fade_in, fade_out)])
              /\ config_op' = Op("_edit_preset", <<>>)
         ELSE UNCHANGED <<config, config_file, config_op>>
    /\ UNCHANGED <<cacheVars, segment_widgets, windowVars, defaultVars>>

\* TrimPanel._remove_preset (lines 589-611)
_remove_preset(selected_index, confirm) ==
    /\ IF selected_index # -1 /\ selected_index < Len(config.preset_fades) /\ confirm
         THEN /\ set("preset_fades",
                     SubSeq(config.preset_fades, 1, selected_index)
                         \o SubSeq(config.preset_fades, selected_index + 2,
                                   Len(config.preset_fades)))
              /\ config_op' = Op("_remove_preset", <<>>)
         ELSE UNCHANGED <<config, config_file, config_op>>
    /\ UNCHANGED <<cacheVars, segment_widgets, windowVars, defaultVars>>

(***************************************************************************)
(* The processing session: a processor is constructed on a video of        *)
(* FrameCount frames at FrameRate frames per second (six seconds), possibly*)
(* closed again, and process_segments is called once with at most MaxSegs  *)
(* of the segments below.                                                  *)
(***************************************************************************)
Ms(tc, digits) == tc \o <<".">> \o digits

Segment(s, e, fi, fo, n) ==
    [start_time |-> s, end_time |-> e, fade_in_duration |-> fi,
     fade_out_duration |-> fo, name |-> n]

SegmentChoices ==
    << \* five seconds with three-second fades at both ends
       Segment(Timecode(0, 0, 0), Timecode(0, 0, 5), 3000, 3000, "long fades"),
       \* short fades
       Segment(Timecode(0, 0, 2), Ms(Timecode(0, 0, 5), <<"5">>), 1000, 1500, "short fades"),
       \* ends after the end of the video
       Segment(Timecode(0, 0, 2), Timecode(0, 0, 9), 500, 0, "too long"),
       \* no fades, and an end time validate_timecode rejects
       Segment(Timecode(0, 0, 1), <<"0", ":", "0", "0", ":", "0", "4">>, 0, 0, "malformed") >>

\* the selections of the elements of a sequence, in its order
RECURSIVE Selections(_)
Selections(s) ==
    IF Len(s) = 0 THEN {<<>>}
    ELSE LET rest == Selections(Tail(s))
         IN  rest \cup {<<Head(s)>> \o r : r \in rest}

\* the segment lists handed to process_segments: at most MaxSegs of the
\* segments above, in the order above
SegmentLists == {l \in Selections(SegmentChoices) : Len(l) <= MaxSegs}

\* a conversion that has not been made
NotRun == [ok |-> FALSE, exc |-> "not run"]

\* the main window of a first start: no segment, the captures counted, and
\* the configuration made of the lists of DEFAULT_CONFIG (load_config, line 65)
IdleWindow ==
    /\ window_segments = <<>>
    /\ open_handles = (IF video_capture.is_open THEN 1 ELSE 0)
    /\ window_op = "none"
    /\ default_modified = {}
    /\ aliased = {"recent_files", "preset_fades"}

\* the configuration of a first start, no segment in the trim panel and no
\* conversion under way
IdleApp ==
    /\ config = DEFAULT_CONFIG
    /\ config_file = <<>>
    /\ disk = "ok"
    /\ config_op = NoOp
    /\ segment_widgets = <<>>
    /\ IdleWindow
    /\ conv_step = "none"
    /\ conv_input = <<>>
    /\ conv_seconds = NotRun
    /\ conv_text = NotRun
    /\ conv_back = NotRun

IdlePipeline ==
    /\ fs = <<>>
    /\ segments = <<>>
    /\ pc = "idle"
    /\ seg_index = 0
    /\ segment_files = <<>>
    /\ simple_from = "none"
    /\ cv_from = "none"
    /\ log = <<>>
    /\ outcome = NoOutcome

Init ==
    /\ video = LoadedVideo(FrameRate, FrameCount)
    /\ video_capture \in {[is_open |-> TRUE, pos |-> 0], [is_open |-> FALSE, pos |-> 0]}
    /\ frame_cache = <<>>
    /\ frame_request = <<>>
    /\ frame_result = NoFrame
    /\ capture_ops = <<>>
    /\ tool \in {"ok", "missing"}
    /\ IdlePipeline
    /\ IdleApp

Next ==
    \/ \E segs \in SegmentLists : ProcessSegments(segs) /\ UNCHANGED appVars
    \/ FilterGraphTier
    \/ SimpleFilterTier
    \/ LastResortTier
    \/ MoveSingle
    \/ ConcatVersionCheck
    \/ ConcatInvocation
    \/ ManualConcatenation

Spec == Init /\ [][Next]_vars

(***************************************************************************)
(* The preview session: a processor is constructed on a video of           *)
(* MaxFrame + 1 frames at one frame per second, the preview plays through  *)
(* its first frames in order until the cache is one short of its limit,    *)
(* and the user then seeks freely.                                         *)
(***************************************************************************)
InitCache ==
    /\ video = LoadedVideo(1, MaxFrame + 1)
    /\ video_capture = [is_open |-> TRUE, pos |-> 0]
    /\ frame_cache = <<>>
    /\ frame_request = <<>>
    /\ frame_result = NoFrame
    /\ capture_ops = <<>>
    /\ IdlePipeline
    /\ IdleApp
    /\ tool = "ok"

PlayFrame ==
    /\ Cardinality(DOMAIN frame_cache) < _cache_size_limit - 1
    /\ \E ret1 \in BOOLEAN : \E ret2 \in IF ret1 THEN {TRUE} ELSE BOOLEAN :
           get_frame_at_time(FrameTimecode(Cardinality(DOMAIN frame_cache)), ret1, ret2)
    /\ UNCHANGED <<video, pipeVars, appVars>>

SeekFrame ==
    /\ Cardinality(DOMAIN frame_cache) >= _cache_size_limit - 1
    /\ \E timecode \in PreviewTimecodes :
         \E ret1 \in BOOLEAN : \E ret2 \in IF ret1 THEN {TRUE} ELSE BOOLEAN :
           get_frame_at_time(timecode, ret1, ret2)
    /\ UNCHANGED <<video, pipeVars, appVars>>

NextCache == PlayFrame \/ SeekFrame

SpecCache == InitCache /\ [][NextCache]_vars

(***************************************************************************)
(* The sessions on the configuration: the application starts without a    *)
(* configuration file, on a disk that takes the file or not.  In the       *)
(* recent-files session the user opens videos out of MaxFiles files and    *)
(* uses the recent-files menu; in the settings session the user opens one  *)
(* video, chooses an output directory and manages the fade presets.        *)
(***************************************************************************)
Files == {<<"video", n>> : n \in 1..MaxFiles}

InitConfig ==
    /\ video = NoVideo
    /\ video_capture = [is_open |-> FALSE, pos |-> 0]
    /\ frame_cache = <<>>
    /\ frame_request = <<>>
    /\ frame_result = NoFrame
    /\ capture_ops = <<>>
    /\ tool = "ok"
    /\ IdlePipeline
    /\ config = DEFAULT_CONFIG
    /\ config_file = <<>>
    /\ disk \in {"ok", "readonly"}
    /\ config_op = NoOp
    /\ segment_widgets = <<>>
    /\ IdleWindow
    /\ conv_step = "none"
    /\ conv_input = <<>>
    /\ conv_seconds = NotRun
    /\ conv_text = NotRun
    /\ conv_back = NotRun

OpenVideoOf(files) ==
    /\ window_op # "closed"
    /\ \E file_path \in files : \E opens \in BOOLEAN : _load_video(file_path, opens)
    /\ UNCHANGED <<pipeVars, disk, convVars>>

OpenVideo == OpenVideoOf(Files)

OpenFirstVideo == OpenVideoOf({<<"video", 1>>})

OpenRecentFile ==
    /\ \E k \in 1..Len(config.recent_files) : \E exists, opens \in BOOLEAN :
           _open_recent_file(config.recent_files[k], exists, opens)
    /\ UNCHANGED <<pipeVars, disk, convVars>>

ClearRecentFiles ==
    /\ _clear_recent_files
    /\ UNCHANGED <<pipeVars, disk, convVars>>

\* ConfigManager.set as _process_video calls it for the output directory
SetOutputDirectory ==
    /\ set("output_directory", "out")
    /\ config_op' = Op("set", <<>>)
    /\ UNCHANGED <<pipeVars, cacheVars, disk, segment_widgets, convVars, windowVars, defaultVars>>

AddPresetFade ==
    /\ \E n \in {"Gentle", "Mine"} :
           /\ (\E k \in 1..Len(config.preset_fades) : config.preset_fades[k].name = n)
                  \/ Len(config.preset_fades) < MaxPresets
           /\ add_preset_fade(n, 1500, 0)
    /\ config_op' = Op("add_preset_fade", <<>>)
    /\ UNCHANGED <<pipeVars, cacheVars, disk, segment_widgets, convVars, windowVars, defaultVars>>

AddPreset ==
    /\ Len(config.preset_fades) < MaxPresets
    /\ \E accepted \in BOOLEAN : \E n \in {"", "Mine"} : _add_preset(accepted, n, 500, 500)
    /\ UNCHANGED <<pipeVars, disk, convVars>>

EditPreset ==
    /\ \E selected_index \in {-1, 0} : \E accepted \in BOOLEAN :
           _edit_preset(selected_index, accepted, "Mine", 1500, 0)
    /\ UNCHANGED <<pipeVars, disk, convVars>>

RemovePreset ==
    /\ \E selected_index \in {-1, 0} : \E confirm \in BOOLEAN :
           _remove_preset(selected_index, confirm)
    /\ UNCHANGED <<pipeVars, disk, convVars>>

NextRecent ==
    \/ OpenVideo
    \/ OpenRecentFile
    \/ ClearRecentFiles

SpecRecent == InitConfig /\ [][NextRecent]_vars

NextConfig ==
    \/ OpenFirstVideo
    \/ SetOutputDirectory
    \/ AddPresetFade
    \/ AddPreset
    \/ EditPreset
    \/ RemovePreset

SpecConfig == InitConfig /\ [][NextConfig]_vars

(***************************************************************************)
(* The trimming session: a video is open, the user adds up to MaxWidgets   *)
(* segments in the trim panel, types into their start fields,               *)
(* removes segments, and presses the process button once.                  *)
(***************************************************************************)
\* the names add_segment gives (f"Segment {segment_count}")
SegmentName(n) == <<"Segment 1", "Segment 2", "Segment 3", "Segment 4">>[n]

\* SegmentWidget: the text of the two line edits, the segment behind them
\* and object, the number that tells this VideoSegment object from the others
Widget(start_text, end_text, segment, object) ==
    [start_text |-> start_text, end_text |-> end_text, segment |-> segment,
     object |-> object]

\* the objects the widgets and the main window refer to
ObjectsInUse ==
    {segment_widgets[k].object : k \in 1..Len(segment_widgets)}
        \cup {window_segments[k] : k \in 1..Len(window_segments)}

\* a VideoSegment object that did not exist before
NewObject == CHOOSE object \in 1..(Cardinality(ObjectsInUse) + 1) : object \notin ObjectsInUse

\* the list without the element at index (from 1)
RemoveAt(list, index) ==
    [k \in 1..(Len(list) - 1) |-> IF k < index THEN list[k] ELSE list[k + 1]]

\* MainWindow._on_segment_added (lines 312-315)
_on_segment_added(object) == window_segments' = Append(window_segments, object)

\* a removal that always deletes the first segment of the main window
_on_segment_removed_first(segment_index) ==
    window_segments' = IF Len(window_segments) > 0
                         THEN RemoveAt(window_segments, 1)
                         ELSE window_segments

\* MainWindow._on_segment_removed (lines 317-321); segment_index counts from 0
_on_segment_removed(segment_index) ==
    window_segments' = IF 0 <= segment_index /\ segment_index < Len(window_segments)
                         THEN RemoveAt(window_segments, segment_index + 1)
                         ELSE window_segments

\* TrimPanel.add_segment (lines 342-390), which emits segment_added; the
\* panel is enabled once a video processor exists
add_segment(start_time, end_time) ==
    /\ video # NoVideo
    /\ segment_widgets' =
           Append(segment_widgets,
                  Widget(start_time, end_time,
                         Segment(start_time, end_time, config.default_fade_in,
                                 config.default_fade_out,
                                 SegmentName(Len(segment_widgets) + 1)),
                         NewObject))
    /\ _on_segment_added(NewObject)

\* the segment after _update_segment: both texts are stored when both have
\* the format of a timecode, whatever their order (lines 209-211)
UpdatedSegment(widget) ==
    IF validate_timecode(widget.start_text) /\ validate_timecode(widget.end_text)
      THEN [widget.segment EXCEPT !.start_time = widget.start_text,
                                  !.end_time = widget.end_text]
      ELSE widget.segment

\* SegmentWidget._update_segment (lines 203-218) after the text of a field
\* of the widget at index changed
_update_segment(index, field, text) ==
    LET typed == [segment_widgets[index] EXCEPT ![field] = text]
    IN  segment_widgets' =
            [segment_widgets EXCEPT ![index] = [typed EXCEPT !.segment = UpdatedSegment(typed)]]

\* TrimPanel._remove_segment (lines 401-417) for the widget at index (from
\* 1), which emits segment_removed with the index counted from 0
_remove_segment(index) ==
    /\ segment_widgets' = RemoveAt(segment_widgets, index)
    /\ _on_segment_removed(index - 1)

\* the VideoSegment with the given object number, as its widget edits it
SegmentObject(object) ==
    segment_widgets[CHOOSE k \in 1..Len(segment_widgets) :
                        segment_widgets[k].object = object].segment

\* MainWindow.segments: the segment objects the main window holds, in its order
PanelSegments == [k \in 1..Len(window_segments) |-> SegmentObject(window_segments[k])]

\* MainWindow._process_video (lines 266-309) up to the first invocation of
\* process_segments; chosen tells whether the save dialog gave a path
_process_video(chosen) ==
    /\ video # NoVideo
    /\ Len(PanelSegments) > 0
    /\ IF chosen THEN
           /\ set("output_directory", "out")
           /\ config_op' = Op("set", <<>>)
           /\ ProcessSegments(PanelSegments)
       ELSE UNCHANGED <<config, config_file, config_op, cacheVars, pipeVars>>

\* what the user types into the start field: a time, and a text not yet
\* complete
StartTexts == {Timecode(0, 0, 12), <<"0", "0", ":", "0", "0", ":", "1">>}

InitPanel ==
    /\ Init
    /\ video_capture.is_open
    /\ tool = "ok"

AddSegment ==
    /\ pc = "idle"
    /\ window_op # "closed"
    /\ Len(segment_widgets) < MaxWidgets
    /\ add_segment(Timecode(0, 0, 0), Timecode(0, 0, 10))
    /\ UNCHANGED <<cacheVars, pipeVars, configVars, convVars, open_handles, window_op,
                   defaultVars>>

EditStartTime ==
    /\ pc = "idle"
    /\ window_op # "closed"
    /\ \E index \in 1..Len(segment_widgets) : \E text \in StartTexts :
           _update_segment(index, "start_text", text)
    /\ UNCHANGED <<cacheVars, pipeVars, configVars, convVars, windowVars, defaultVars>>

RemoveSegment ==
    /\ pc = "idle"
    /\ window_op # "closed"
    /\ \E index \in 1..Len(segment_widgets) : _remove_segment(index)
    /\ UNCHANGED <<cacheVars, pipeVars, configVars, convVars, open_handles, window_op,
                   defaultVars>>

ProcessVideo ==
    /\ window_op # "closed"
    /\ \E chosen \in BOOLEAN : _process_video(chosen)
    /\ UNCHANGED <<segment_widgets, disk, convVars, windowVars, defaultVars>>

NextPanel ==
    \/ AddSegment
    \/ EditStartTime
    \/ RemoveSegment
    \/ ProcessVideo
    \/ FilterGraphTier
    \/ SimpleFilterTier
    \/ LastResortTier
    \/ MoveSingle
    \/ ConcatVersionCheck
    \/ ConcatInvocation
    \/ ManualConcatenation

SpecPanel == InitPanel /\ [][NextPanel]_vars

(***************************************************************************)
(* The conversions: a text is handed to timecode_to_seconds, the seconds   *)
(* to seconds_to_timecode, and the timecode it gives to                    *)
(* timecode_to_seconds again; an exception ends the chain.                 *)
(***************************************************************************)
Suffixes ==
    {<<>>, <<".", "5">>, <<".", "2", "5">>, <<".", "2", "5", "0">>, <<".", "9", "9", "9">>,
     <<":", "5">>, <<":", "2", "5", "0">>, <<":", "9", "9", "9">>,
     \* a fourth fractional digit, and a separator without digits
     <<".", "2", "5", "0", "0">>, <<":">>}

\* the texts converted: timecodes of every form, with fields beyond 59 and
\* with a newline at the end, and texts that are no timecodes
Timecodes ==
    {h \o <<":">> \o m \o <<":">> \o s \o f \o nl :
        h \in {<<"0", "0">>, <<"0", "1">>, <<"9", "9">>},
        m \in {<<"0", "0">>, <<"0", "1">>, <<"5", "9">>, <<"6", "0">>},
        s \in {<<"0", "0">>, <<"0", "5">>, <<"5", "9">>, <<"9", "9">>},
        f \in Suffixes, nl \in {<<>>, <<"\n">>}}
    \cup {<<>>, <<"1", ":", "0", "0", ":", "0", "5">>, <<"0", "0", ":", "0", "1">>,
          <<" ", "0", "0", ":", "0", "1", ":", "0", "5">>,
          <<"0", "0", ":", "0", "1", ":", "0", "5", " ">>,
          <<"0", "0", ".", "0", "1", ".", "0", "5">>,
          <<"0", "0", ":", "0", "1", ":", "0", "5", "\n", "\n">>}

InitConv ==
    /\ video = NoVideo
    /\ video_capture = [is_open |-> FALSE, pos |-> 0]
    /\ frame_cache = <<>>
    /\ frame_request = <<>>
    /\ frame_result = NoFrame
    /\ capture_ops = <<>>
    /\ tool = "ok"
    /\ IdlePipeline
    /\ config = DEFAULT_CONFIG
    /\ config_file = <<>>
    /\ disk = "ok"
    /\ config_op = NoOp
    /\ segment_widgets = <<>>
    /\ IdleWindow
    /\ conv_step = "input"
    /\ conv_input \in Timecodes
    /\ conv_seconds = NotRun
    /\ conv_text = NotRun
    /\ conv_back = NotRun

ToSeconds ==
    /\ conv_step = "input"
    /\ conv_seconds' = timecode_to_seconds(conv_input)
    /\ conv_step' = "seconds"
    /\ UNCHANGED <<conv_input, conv_text, conv_back>>

ToTimecode ==
    /\ conv_step = "seconds"
    /\ conv_seconds.ok
    /\ conv_text' = seconds_to_timecode(conv_seconds.ms, "none")
    /\ conv_step' = "timecode"
    /\ UNCHANGED <<conv_input, conv_seconds, conv_back>>

BackToSeconds ==
    /\ conv_step = "timecode"
    /\ conv_text.ok
    /\ conv_back' = timecode_to_seconds(conv_text.text)
    /\ conv_step' = "back"
    /\ UNCHANGED <<conv_input, conv_seconds, conv_text>>

NextConv ==
    \/ ToSeconds /\ UNCHANGED <<cacheVars, pipeVars, configVars, segment_widgets, windowVars, defaultVars>>
    \/ ToTimecode /\ UNCHANGED <<cacheVars, pipeVars, configVars, segment_widgets, windowVars, defaultVars>>
    \/ BackToSeconds /\ UNCHANGED <<cacheVars, pipeVars, configVars, segment_widgets, windowVars, defaultVars>>

SpecConv == InitConv /\ [][NextConv]_vars

(***************************************************************************)
(* The formatting session: seconds_to_timecode is called once on a number  *)
(* of seconds.                                                             *)
(***************************************************************************)
\* a float of ms whole milliseconds and a rest
Seconds(ms, rest) == [ok |-> TRUE, ms |-> ms, rest |-> rest]

\* the whole milliseconds of the numbers formatted
FormatSeconds ==
    {-3600000, -1500, -1, 0, 1, 499, 999, 1000, 1001, 59000, 59999, 60000, 61250,
     90000, 90500, 3599000, 3599999, 3600000, 3661001, 86399999, 359999999, 360000000,
     362439999}

InitFormat ==
    /\ video = NoVideo
    /\ video_capture = [is_open |-> FALSE, pos |-> 0]
    /\ frame_cache = <<>>
    /\ frame_request = <<>>
    /\ frame_result = NoFrame
    /\ capture_ops = <<>>
    /\ tool = "ok"
    /\ IdlePipeline
    /\ config = DEFAULT_CONFIG
    /\ config_file = <<>>
    /\ disk = "ok"
    /\ config_op = NoOp
    /\ segment_widgets = <<>>
    /\ IdleWindow
    /\ conv_step = "number"
    /\ conv_input = <<>>
    /\ conv_seconds \in {Seconds(ms, rest) : ms \in FormatSeconds, rest \in Rests}
    /\ conv_text = NotRun
    /\ conv_back = NotRun

FormatSecondsCall ==
    /\ conv_step = "number"
    /\ conv_text' = seconds_to_timecode(conv_seconds.ms, conv_seconds.rest)
    /\ conv_step' = "formatted"
    /\ UNCHANGED <<conv_input, conv_seconds, conv_back>>
    /\ UNCHANGED <<cacheVars, pipeVars, configVars, segment_widgets, windowVars, defaultVars>>

NextFormat == FormatSecondsCall

SpecFormat == InitFormat /\ [][NextFormat]_vars

(***************************************************************************)
(* The range session: parse_timecode_range is called once on a text.       *)
(***************************************************************************)
\* the two sides of the ranges: timecodes of each form, and texts that are
\* none
RangeSides ==
    {Timecode(0, 0, 5), Timecode(0, 0, 10), Ms(Timecode(0, 0, 5), <<"5">>),
     Timecode(0, 0, 5) \o <<":", "5", "0", "0">>, Timecode(0, 1, 0),
     <<"0", ":", "0", "0", ":", "0", "5">>, <<>>}

RangeSeparators == {<<"-">>, <<" ", "-", " ">>, <<"-", "-">>, <<":">>}

Ranges ==
    {left \o sep \o right : left \in RangeSides, sep \in RangeSeparators, right \in RangeSides}
        \cup {Timecode(0, 0, 5) \o <<"-">> \o Timecode(0, 0, 10) \o <<"\n">>}

InitRange ==
    /\ video = NoVideo
    /\ video_capture = [is_open |-> FALSE, pos |-> 0]
    /\ frame_cache = <<>>
    /\ frame_request = <<>>
    /\ frame_result = NoFrame
    /\ capture_ops = <<>>
    /\ tool = "ok"
    /\ IdlePipeline
    /\ config = DEFAULT_CONFIG
    /\ config_file = <<>>
    /\ disk = "ok"
    /\ config_op = NoOp
    /\ segment_widgets = <<>>
    /\ IdleWindow
    /\ conv_step = "range"
    /\ conv_input \in Ranges
    /\ conv_seconds = NotRun
    /\ conv_text = NotRun
    /\ conv_back = NotRun

ParseRange ==
    /\ conv_step = "range"
    /\ conv_seconds' = parse_timecode_range(conv_input)
    /\ conv_step' = "parsed"
    /\ UNCHANGED <<conv_input, conv_text, conv_back>>
    /\ UNCHANGED <<cacheVars, pipeVars, configVars, segment_widgets, windowVars, defaultVars>>

NextRange == ParseRange

SpecRange == InitRange /\ [][NextRange]_vars

\* C1: after any sequence of get_frame_at_time calls the frame cache holds
\* at most 30 entries.
CacheNeverExceedsLimit == Cardinality(DOMAIN frame_cache) <= 30

\* a miss has been stored into a full cache, which is still full
CacheFullAfterEviction ==
    /\ Cardinality(DOMAIN frame_cache) = 30
    /\ 0 \notin DOMAIN frame_cache
    /\ frame_result # NoFrame
    /\ Len(capture_ops) > 0

\* the reads of a call that delivered a frame
Decodes(ops) == Count(ops, "read")

\* C12: a get_frame_at_time call that computes a frame index (its timecode is
\* valid and within the video) which is in the cache returns the stored
\* (width, height, bytes) tuple and does not seek, re-open or read the
\* capture, and leaves cache and capture as they were; two consecutive calls
\* for the same timecode decode at most one frame between them.
CachedFrameNotDecodedAgain ==
    [][LET parsed == timecode_to_seconds(frame_request')
           frame_number == _get_frame_number(parsed.ms)
       IN  /\ (parsed.ok /\ parsed.ms >= 0 /\ parsed.ms <= video.duration
                  /\ frame_number \in DOMAIN frame_cache) =>
                  /\ frame_result' = [frame |-> frame_number,
                                      value |-> frame_cache[frame_number]]
                  /\ capture_ops' = <<>>
                  /\ frame_cache' = frame_cache
                  /\ video_capture' = video_capture
           /\ frame_request' = frame_request =>
                  Decodes(capture_ops) + Decodes(capture_ops') <= 1]_vars

\* a call has just been answered from a full cache
FrameServedFromCache ==
    /\ frame_request # <<>>
    /\ frame_result # NoFrame
    /\ capture_ops = <<>>
    /\ frame_result.value = frame_cache[frame_result.frame]
    /\ Cardinality(DOMAIN frame_cache) = _cache_size_limit

\* C13: get_frame_at_time never raises, and it returns None when the
\* timecode is malformed, when its seconds value is outside [0, duration],
\* and when the read after the millisecond seek and the read after the one
\* frame-index seek both deliver no frame; in each of these cases the frame
\* cache is unchanged.
FrameFailuresReturnNone ==
    [][LET parsed == timecode_to_seconds(frame_request')
       IN  /\ \/ frame_result' = NoFrame
              \/ /\ frame_result'.frame >= 0
                 /\ Len(frame_result'.value) = 3
                 /\ frame_result'.value[1] = video.width
           /\ (\/ ~parsed.ok
               \/ parsed.ms < 0
               \/ parsed.ms > video.duration
               \/ Count(capture_ops', "read_failed") = 2) =>
                  /\ frame_result' = NoFrame
                  /\ frame_cache' = frame_cache]_vars

\* both reads of a call failed while frames were cached
BothSeeksFailed ==
    /\ frame_result = NoFrame
    /\ Count(capture_ops, "seek_msec") = 1
    /\ Count(capture_ops, "seek_frames") = 1
    /\ Count(capture_ops, "read_failed") = 2
    /\ Cardinality(DOMAIN frame_cache) > 0

(***************************************************************************)
(* The trim pipeline and the concatenation.                                *)
(***************************************************************************)
IsTier(e) == e.op \in {"tier1", "tier2", "tier3"}

TierFailed(e) == e.result \in {"rc1", "oserror", "raised"}

Finished == pc \in {"done", "raised"}

\* C2: the simple-filter tier runs only after the filter-graph tier failed
\* for that segment, the last-resort tier only after the simple-filter tier
\* failed for it, and no tier is invoked for a segment after one succeeded.
TierOnlyAfterFailure ==
    \A k \in 1..Len(log) :
        /\ log[k].op = "tier2" =>
               \E j \in 1..(k - 1) :
                   log[j].op = "tier1" /\ log[j].seg = log[k].seg /\ TierFailed(log[j])
        /\ log[k].op = "tier3" =>
               \E j \in 1..(k - 1) :
                   log[j].op = "tier2" /\ log[j].seg = log[k].seg /\ TierFailed(log[j])
        /\ (IsTier(log[k]) /\ ~TierFailed(log[k])) =>
               \A j \in (k + 1)..Len(log) : ~(IsTier(log[j]) /\ log[j].seg = log[k].seg)

\* one segment went down to the last-resort tier, another stopped at the first
FallbackAndDirectSuccess ==
    /\ pc = "done"
    /\ \E k \in 1..Len(log) : log[k].op = "tier3" /\ log[k].result = "returned"
    /\ \E k \in 1..Len(log) : log[k].op = "tier1" /\ log[k].result = "rc0"

\* C3: a tier of the external tool counts as successful only when it exits
\* with code 0 and its output file exists and is not empty.
SuccessNeedsOutputFile ==
    \A k \in 1..Len(log) :
        (log[k].op \in {"tier1", "tier2"} /\ log[k].result = "rc0"
            /\ pc \in {"tier1", "tier2", "tier3", "after_loop"}) =>
        /\ Exists(fs, SegmentPath(log[k].seg))
        /\ fs[SegmentPath(log[k].seg)].kind = "video"

\* C4: when the last-resort tier fails for a segment, process_segments ends
\* with an error that names the segment, and never with its output path.
LastResortFailureIsFatal ==
    (Finished /\ \E k \in 1..Len(log) : log[k].op = "tier3" /\ log[k].result = "raised") =>
        /\ pc = "raised"
        /\ ~outcome.ok
        /\ outcome.about = <<"segment", seg_index>>

\* C5: when process_segments has finished, on every exit path, the segment
\* files, the temp_segments directory and the manifest no longer exist.
TemporariesRemoved ==
    Finished => \A q \in DOMAIN fs : q = OutputPath

\* fade-in plus fade-out is more than 90% of a duration
FadesExceed(segment, duration) ==
    (segment.fade_in_duration + segment.fade_out_duration) * 10 > duration * 9

LastResortFiles == {q \in DOMAIN fs : fs[q].kind = "video" /\ fs[q].tier = 3}

FadeInFrames(segment) == (segment.fade_in_duration * video.fps) \div 1000

FadeOutFrames(segment) == (segment.fade_out_duration * video.fps) \div 1000

IsConcatStep(e) == e.op \in {"manifest", "version", "concat", "manual"}

\* C8: the concatenation step is invoked if and only if two or more segments
\* were processed; with one segment the trimmed file is moved to the output
\* path, no manifest is written and no concat invocation is made.
ConcatIffSeveralSegments ==
    /\ (\E k \in 1..Len(log) : IsConcatStep(log[k])) =>
           Len(segments) >= 2 /\ Len(segment_files) = Len(segments)
    /\ (Finished /\ Len(segments) >= 2 /\ Len(segment_files) = Len(segments)) =>
           \E k \in 1..Len(log) : log[k].op \in {"concat", "manual"}
    /\ (pc = "done" /\ Len(segments) = 1) =>
           /\ log[Len(log)].op = "replace"
           /\ Exists(fs, OutputPath)
           /\ fs[OutputPath].seg = 0 /\ fs[OutputPath].tier \in 1..3
           /\ ~Exists(fs, SegmentPath(0))

\* a single segment was moved to the output path
SingleSegmentMoved ==
    pc = "done" /\ Len(segments) = 1 /\ Exists(fs, OutputPath)

\* C9: the i-th entry of the concat manifest, and the i-th file the manual
\* fallback reads, is the trimmed file of the i-th segment: nothing is
\* missing, duplicated or reordered.
ManifestInSegmentOrder ==
    /\ Exists(fs, ListFile) =>
           /\ fs[ListFile].data = [i \in 1..Len(segments) |-> SegmentPath(i - 1)]
           /\ \A i \in 1..Len(segments) :
                  Exists(fs, SegmentPath(i - 1)) => fs[SegmentPath(i - 1)].seg = i - 1
    /\ (Exists(fs, OutputPath) /\ fs[OutputPath].tier = 4 /\ fs[OutputPath].kind = "video") =>
           fs[OutputPath].data = [i \in 1..Len(segments) |-> SegmentPath(i - 1)]
    /\ (Exists(fs, OutputPath) /\ fs[OutputPath].tier = 5) =>
           \A i, j \in 1..Len(fs[OutputPath].data) :
               i < j => fs[OutputPath].data[i][2] < fs[OutputPath].data[j][2]

\* the manifest of two different segments is written and the concat
\* invocation is about to read it
ManifestOfTwoWritten ==
    /\ pc = "concat"
    /\ Exists(fs, ListFile)
    /\ Len(segments) >= 2
    /\ segments[1] # segments[2]

\* C10: a concat invocation that exits with code 0 but leaves the output file
\* missing or empty ends in an error raised to the caller.
EmptyConcatOutputIsFatal ==
    (Finished /\ Len(log) > 0 /\ log[Len(log)].op = "concat" /\ log[Len(log)].result = "rc0"
        /\ (~Exists(fs, OutputPath) \/ fs[OutputPath].kind = "empty")) =>
    pc = "raised"

VersionCheckOf(k) ==
    CHOOSE j \in 1..(k - 1) :
        log[j].op = "version" /\ \A i \in (j + 1)..(k - 1) : log[i].op # "version"

\* C11: the manual frame-copy concatenation runs exactly when the version
\* check of the external tool failed (the tool is missing or exits non-zero);
\* after a version check that succeeded the concat invocation is made and
\* the manual concatenation is not.
ManualIffVersionCheckFails ==
    /\ \A k \in 1..Len(log) :
           /\ log[k].op \in {"manual", "concat"} =>
                  \E j \in 1..(k - 1) : log[j].op = "version"
           /\ log[k].op = "manual" => log[VersionCheckOf(k)].result \in {"oserror", "rc1"}
           /\ log[k].op = "concat" => log[VersionCheckOf(k)].result = "rc0"
    /\ Finished =>
           \A j \in 1..Len(log) :
               log[j].op = "version" =>
                   \E k \in (j + 1)..Len(log) :
                       log[k].op = IF log[j].result = "rc0" THEN "concat" ELSE "manual"

\* the tool is installed, its version check exited non-zero and the manual
\* concatenation wrote the output
ManualAfterFailedVersionCheck ==
    /\ pc = "done"
    /\ tool = "ok"
    /\ \E j \in 1..Len(log) : log[j].op = "version" /\ log[j].result = "rc1"
    /\ log[Len(log)].op = "manual" /\ log[Len(log)].result = "written"
    /\ Exists(fs, OutputPath) /\ fs[OutputPath].tier = 5

\* C14: process_segments called with an empty list raises ValueError at once:
\* no temporary directory is created, no file is written and no invocation
\* of the external tool or tier is made.
EmptyListRaisesFirst ==
    (pc # "idle" /\ segments = <<>>) =>
        /\ pc = "raised"
        /\ outcome = Error("ValueError", "No segments provided", <<"none">>)
        /\ fs = <<>>
        /\ log = <<>>

\* process_segments was called with an empty list and has raised
EmptyListRaised ==
    pc = "raised" /\ segments = <<>> /\ outcome.exc = "ValueError"

Malformed(segment) ==
    ~validate_timecode(segment.start_time) \/ ~validate_timecode(segment.end_time)

\* C15: for a segment with a malformed start or end timecode no external
\* tool is invoked and no fallback tier is tried, and process_segments ends
\* by raising an input error.
MalformedTimecodeRejected ==
    /\ \A k \in 1..Len(log) :
           (IsTier(log[k]) /\ Malformed(segments[log[k].seg + 1])) =>
               log[k].op = "tier1" /\ log[k].result = "raised"
    /\ (Finished /\ \E i \in 1..Len(segments) :
                        i <= seg_index + 1 /\ Malformed(segments[i])) =>
           pc = "raised" /\ outcome.exc = "ValueError"

(***************************************************************************)
(* The configuration.                                                      *)
(***************************************************************************)
NoDuplicates(list) == \A i, j \in 1..Len(list) : i < j => list[i] # list[j]

AllBut(list, x) == SelectSeq(list, LAMBDA y : y # x)

FirstOf(list, n) == SubSeq(list, 1, IF Len(list) < n THEN Len(list) ELSE n)

\* C17: after every add_recent_file, removal and clear the recent-file list
\* has no duplicate and at most max_recent_files entries; an add puts the
\* added path at index 0 and keeps the other paths behind it in the order
\* they had, a removal and a clear keep the order of what is left: the list
\* is always in most-recent-first order.
RecentFilesMostRecentFirst ==
    [][LET old == config.recent_files
           new == config'.recent_files
       IN  /\ NoDuplicates(new)
           /\ Len(new) <= config'.max_recent_files
           /\ config_op'.op = "add" =>
                  /\ Len(new) > 0
                  /\ new[1] = config_op'.arg
                  /\ Tail(new) = FirstOf(AllBut(old, config_op'.arg),
                                         config.max_recent_files - 1)
           /\ config_op'.op = "remove" => new = AllBut(old, config_op'.arg)
           /\ config_op'.op = "clear" => new = <<>>]_vars

\* a video was opened and put first in a list that is full
RecentFilesFull ==
    /\ config_op.op = "add"
    /\ Len(config.recent_files) = config.max_recent_files
    /\ config.recent_files[1] = config_op.arg
    /\ video_capture.is_open

EndAfterStart(segment) ==
    time_to_seconds(segment.end_time).ms > time_to_seconds(segment.start_time).ms

\* C16: no segment stored in the trim panel and no segment handed to
\* process_segments has an end time at or before its start time.
SegmentsEndAfterStart ==
    /\ \A k \in 1..Len(segment_widgets) : EndAfterStart(segment_widgets[k].segment)
    /\ \A k \in 1..Len(segments) : EndAfterStart(segments[k])

(***************************************************************************)
(* The timecode conversions.                                               *)
(***************************************************************************)
\* C19: for every timecode T that validate_timecode accepts,
\* timecode_to_seconds(seconds_to_timecode(timecode_to_seconds(T)))
\* succeeds and equals timecode_to_seconds(T).
RoundTripGivesSameSeconds ==
    (validate_timecode(conv_input) /\ conv_step \in {"timecode", "back"}) =>
        /\ conv_seconds.ok
        /\ conv_text.ok
        /\ timecode_to_seconds(conv_text.text) = conv_seconds
        /\ conv_step = "back" => conv_back = conv_seconds

\* DD:DD:DD, optionally followed by '.' or ':' and one to three digits
IsDocumentedFormat(text) ==
    /\ Len(text) \in {8, 10, 11, 12}
    /\ \A k \in {1, 2, 4, 5, 7, 8} : IsDigit(text[k])
    /\ text[3] = ":" /\ text[6] = ":"
    /\ Len(text) > 8 => /\ text[9] = "." \/ text[9] = ":"
                        /\ \A k \in 10..Len(text) : IsDigit(text[k])

\* H*3600 + M*60 + S, plus n/1000 for HH:MM:SS:n and 0.f for HH:MM:SS.f, in
\* milliseconds
DocumentedSeconds(text) ==
    LET field(k) == 10 * DigitVal(text[k]) + DigitVal(text[k + 1])
        digits == IF Len(text) > 8 THEN SubSeq(text, 10, Len(text)) ELSE <<>>
        whole == 1000 * (field(1) * 3600 + field(4) * 60 + field(7))
    IN  IF Len(text) = 8 THEN whole
        ELSE IF text[9] = ":" THEN whole + DigitsVal(digits)
        ELSE whole + DigitsVal(digits) * Pow10(3 - Len(digits))

\* C20: timecode_to_seconds fails with a format error for every string that
\* is not DD:DD:DD optionally followed by '.' or ':' and 1-3 digits, and
\* otherwise returns H*3600 + M*60 + S plus n/1000 (colon form) or 0.f (dot
\* form).
ToSecondsAsDocumented ==
    conv_step # "input" =>
        conv_seconds = (IF IsDocumentedFormat(conv_input)
                          THEN Ok(DocumentedSeconds(conv_input))
                          ELSE Raise("ValueError"))

TwoDigits(text) == Len(text) = 2 /\ AllDigits(text)

\* C21: seconds_to_timecode fails for negative seconds; otherwise it returns
\* zero-padded HH:MM:SS when the seconds have no fractional part and
\* HH:MM:SS.mmm, with a dot and never a colon before the three decimals,
\* when they have, where HH = floor(s/3600) and MM = floor((s mod 3600)/60);
\* 90.0 gives "00:01:30" and 90.5 gives "00:01:30.500".
SecondsFormatted ==
    conv_step = "formatted" =>
        LET s == conv_seconds.ms
            whole == s % 1000 = 0 /\ conv_seconds.rest = "none"
            parts == Split(conv_text.text, ":")
        IN  IF s < 0 THEN conv_text = Raise("ValueError")
            ELSE /\ conv_text.ok
                 /\ Len(parts) = 3
                 /\ AllDigits(parts[1]) /\ Len(parts[1]) >= 2
                 /\ Len(parts[1]) > 2 => parts[1][1] # "0"
                 /\ DigitsVal(parts[1]) = s \div 3600000
                 /\ TwoDigits(parts[2])
                 /\ DigitsVal(parts[2]) = (s % 3600000) \div 60000
                 /\ IF whole
                      THEN /\ TwoDigits(parts[3])
                           /\ DigitsVal(parts[3]) = (s % 60000) \div 1000
                      ELSE /\ Len(parts[3]) = 6
                           /\ TwoDigits(SubSeq(parts[3], 1, 2))
                           /\ parts[3][3] = "."
                           /\ AllDigits(SubSeq(parts[3], 4, 6))
                           /\ PyFloat(parts[3]).ms \in {s % 60000, (s % 60000) + 1}
                 /\ (s = 90000 /\ whole) => conv_text.text = Timecode(0, 1, 30)
                 /\ (s = 90500 /\ conv_seconds.rest = "none") =>
                        conv_text.text = Ms(Timecode(0, 1, 30), <<"5", "0", "0">>)

\* 90.5 seconds have been formatted
FractionFormatted ==
    /\ conv_step = "formatted"
    /\ conv_seconds = Seconds(90500, "none")
    /\ conv_text.ok
    /\ Count(conv_text.text, ".") = 1

\* the text is two timecodes around one '-', the second after the first
IsRange(text) ==
    /\ Count(text, "-") = 1
    /\ LET dash == CHOOSE k \in 1..Len(text) : text[k] = "-"
           left == Strip(SubSeq(text, 1, dash - 1))
           right == Strip(SubSeq(text, dash + 1, Len(text)))
       IN  /\ validate_timecode(left)
           /\ validate_timecode(right)
           /\ timecode_to_seconds(right).ms > timecode_to_seconds(left).ms

\* C22: parse_timecode_range fails unless the text splits on '-' into exactly
\* two parts that are (white space around them aside) both valid timecodes
\* with the end strictly greater than the start; when it succeeds the pair
\* returned has start_seconds < end_seconds; "00:00:10-00:00:05" and a range
\* with equal start and end fail.
RangeNeedsEndAfterStart ==
    conv_step = "parsed" =>
        /\ conv_seconds.ok <=> IsRange(conv_input)
        /\ ~conv_seconds.ok => conv_seconds = Raise("ValueError")
        /\ conv_seconds.ok => conv_seconds.start < conv_seconds.end
        /\ conv_input \in {Timecode(0, 0, 10) \o <<"-">> \o Timecode(0, 0, 5),
                           Timecode(0, 0, 5) \o <<"-">> \o Timecode(0, 0, 5)}
               => ~conv_seconds.ok

\* a range of equal start and end (5.5 s and 5:500) has been refused
EqualRangeRefused ==
    /\ conv_step = "parsed"
    /\ conv_input = Ms(Timecode(0, 0, 5), <<"5">>) \o <<"-">>
                        \o Timecode(0, 0, 5) \o <<":", "5", "0", "0">>
    /\ ~conv_seconds.ok

(***************************************************************************)
(* ui/main_window.py: a session of loading, editing and closing            *)
(***************************************************************************)
\* the window starts without a video and with a writable configuration
InitWindow ==
    /\ InitConfig
    /\ disk = "ok"

\* the files the user picks in the dialog
WindowFiles == {<<"video", 1>>, <<"video", 2>>}

OpenWindowVideo == OpenVideoOf(WindowFiles)

\* the window is closed: closeEvent, after which nothing else runs
CloseWindow ==
    /\ window_op # "closed"
    /\ closeEvent
    /\ UNCHANGED <<video, frame_cache, frame_request, frame_result, capture_ops,
                   pipeVars, configVars, segment_widgets, convVars, window_segments,
                   defaultVars>>

NextWindow ==
    \/ OpenWindowVideo
    \/ AddSegment
    \/ EditStartTime
    \/ RemoveSegment
    \/ CloseWindow

SpecWindow == InitWindow /\ [][NextWindow]_vars

\* C23: after any sequence of load and close operations in the main window
\* at most one VideoProcessor holds an open source handle, the one in use if
\* any, and none holds one after closeEvent
HandleReleased ==
    /\ open_handles <= 1
    /\ open_handles = (IF video_capture.is_open THEN 1 ELSE 0)
    /\ window_op = "closed" => open_handles = 0

\* witness of C23: the window was closed after a second video replaced the
\* first one
ClosedAfterLoads ==
    /\ window_op = "closed"
    /\ Len(config.recent_files) = 2
    /\ video # NoVideo
    /\ open_handles = 0

\* C28: a load that fails while a video is loaded leaves the previous
\* session as it was: the processor in use still has its open source handle
\* and the segments of the window and of the panel are unchanged
FailedLoadKeepsSession ==
    [][(window_op' = "load_failed" /\ video_capture.is_open)
          => /\ video_capture'.is_open
             /\ open_handles' = open_handles
             /\ window_segments' = window_segments
             /\ segment_widgets' = segment_widgets]_vars

\* C30: after any sequence of add-segment, remove-segment and load-video
\* operations MainWindow.segments and TrimPanel.segment_widgets have the same
\* length and refer, position by position, to the same VideoSegment objects
WindowShowsPanelSegments ==
    /\ Len(window_segments) = Len(segment_widgets)
    /\ \A k \in 1..Len(segment_widgets) : window_segments[k] = segment_widgets[k].object

\* witness of C30: the first of two segments was removed, so that the
\* second object is now at the first position of both lists, and the
\* remaining segment was edited
SecondSegmentMovedUp ==
    /\ Len(segment_widgets) = 1
    /\ segment_widgets[1].object = 2
    /\ window_segments = <<2>>
    /\ segment_widgets[1].segment.start_time = Timecode(0, 0, 12)

\* the position of a tier in the documented order
TierRank(op) == IF op = "tier1" THEN 1 ELSE IF op = "tier2" THEN 2 ELSE 3

Tiers == {"tier1", "tier2", "tier3"}

\* the entries of the log that are attempts of a tier on segment i
TierAttempts(i) == {k \in 1..Len(log) : log[k].seg = i /\ log[k].op \in Tiers}

\* C24: for each segment the tiers are attempted in the order filter-graph,
\* simple-filter, last-resort, each at most once, also when all three fail
\* and the error reaches the caller
TiersInOrderOnce ==
    \A i \in 0..(Len(segments) - 1) :
        \A k, j \in TierAttempts(i) :
            k < j => TierRank(log[k].op) < TierRank(log[j].op)

\* the frames that a step removes from the cache
Evicted == (DOMAIN frame_cache) \ (DOMAIN frame_cache')

InitParsers == InitConv

ParseWithUtility ==
    /\ conv_step = "input"
    /\ conv_seconds' = timecode_to_seconds(conv_input)
    /\ conv_step' = "utility"
    /\ UNCHANGED <<conv_input, conv_text, conv_back>>
    /\ UNCHANGED <<cacheVars, pipeVars, configVars, segment_widgets, windowVars, defaultVars>>

ParseWithSegment ==
    /\ conv_step = "utility"
    /\ conv_back' = time_to_seconds(conv_input)
    /\ conv_step' = "both"
    /\ UNCHANGED <<conv_input, conv_text, conv_seconds>>
    /\ UNCHANGED <<cacheVars, pipeVars, configVars, segment_widgets, windowVars, defaultVars>>

NextParsers ==
    \/ ParseWithUtility
    \/ ParseWithSegment

SpecParsers == InitParsers /\ [][NextParsers]_vars

\* C26: for every string that validate_timecode accepts,
\* VideoSegment.time_to_seconds returns the same number of seconds as
\* timecode_to_seconds
ParsersAgree ==
    (conv_step = "both" /\ validate_timecode(conv_input))
        => /\ conv_seconds.ok
           /\ conv_back = conv_seconds

\* witness of C26: both parsers ran on a timecode with milliseconds after a
\* third colon and a newline at its end, and gave 99:60:59.250
BothParsedMilliseconds ==
    /\ conv_step = "both"
    /\ Count(conv_input, ":") = 3
    /\ conv_input[Len(conv_input)] = "\n"
    /\ conv_back.ok
    /\ conv_back.ms = 99 * 3600000 + 60 * 60000 + 59250

\* whether the list of DEFAULT_CONFIG under key holds its original value: the
\* list is the one config holds, or it was left behind
DefaultListIsOriginal(key) ==
    IF key \in aliased THEN config[key] = DEFAULT_CONFIG[key]
                       ELSE key \notin default_modified

\* C27: after any sequence of ConfigManager operations and trim-panel preset
\* actions on a manager that started from the defaults, the recent_files
\* list and the preset_fades list of DEFAULT_CONFIG hold their original
\* values
DefaultConfigNeverModified ==
    /\ DefaultListIsOriginal("recent_files")
    /\ DefaultListIsOriginal("preset_fades")

(***************************************************************************)
(* The processing session in an output directory that is not empty: it     *)
(* holds a filelist.txt and a temp_segments directory with a               *)
(* segment_0.mp4, none of them made by this program.                       *)
(***************************************************************************)
\* a file of the user
UserFile(n) == [kind |-> "user", seg |-> -1, tier |-> 0, data |-> <<n>>]

\* the output directory before the call
PreExisting ==
    Write(Write(Write(<<>>, ListFile, UserFile(1)), TempDir, Directory),
          SegmentPath(0), UserFile(2))

InitExisting ==
    /\ video = LoadedVideo(FrameRate, FrameCount)
    /\ video_capture \in {[is_open |-> TRUE, pos |-> 0], [is_open |-> FALSE, pos |-> 0]}
    /\ frame_cache = <<>>
    /\ frame_request = <<>>
    /\ frame_result = NoFrame
    /\ capture_ops = <<>>
    /\ tool \in {"ok", "missing"}
    /\ fs = PreExisting
    /\ segments = <<>>
    /\ pc = "idle"
    /\ seg_index = 0
    /\ segment_files = <<>>
    /\ simple_from = "none"
    /\ cv_from = "none"
    /\ log = <<>>
    /\ outcome = NoOutcome
    /\ IdleApp

SpecExisting == InitExisting /\ [][Next]_vars

\* C29: process_segments changes nothing in the output directory except
\* the output file: whatever existed there before the call exists with the
\* same content after it, whether it returned or raised
OutputDirectoryKept ==
    pc \in {"done", "raised"} =>
        \A path \in (DOMAIN PreExisting) \ {OutputPath} :
            /\ Exists(fs, path)
            /\ fs[path] = PreExisting[path]

====
